---- MODULE Spec2Model ----
(***************************************************************************)
(* A model of cassandra/cqlengine/management.py: the schema management     *)
(* functions sync_table, sync_type, _sync_type and _update_options, run    *)
(* against a cluster whose schema is `live` and whose client-side metadata *)
(* cache is `meta`.                                                        *)
(*                                                                         *)
(* A Python str is a sequence of one-character strings, so that rendering  *)
(* an option as a CQL clause and parsing the clause back are computed on   *)
(* the characters, as the code does.                                       *)
(***************************************************************************)
EXTENDS Integers, Sequences, FiniteSets, TLC

(***************************************************************************)
(* Python str methods                                                      *)
(***************************************************************************)

\* str.find(ch): the 0-based index of the first ch, or -1
Find(s, ch) ==
    IF \E i \in 1..Len(s) : s[i] = ch
    THEN (CHOOSE i \in 1..Len(s) : s[i] = ch /\ \A j \in 1..(i - 1) : s[j] # ch) - 1
    ELSE -1

\* str.rfind(ch): the 0-based index of the last ch, or -1
RFind(s, ch) ==
    IF \E i \in 1..Len(s) : s[i] = ch
    THEN (CHOOSE i \in 1..Len(s) : s[i] = ch /\ \A j \in (i + 1)..Len(s) : s[j] # ch) - 1
    ELSE -1

\* s[i:j] for 0 <= i
Slice(s, i, j) == SubSeq(s, i + 1, j)

RECURSIVE Replace(_, _, _)
\* str.replace(ch, rep) for a one-character ch
Replace(s, ch, rep) ==
    IF s = <<>> THEN <<>>
    ELSE (IF Head(s) = ch THEN rep ELSE <<Head(s)>>) \o Replace(Tail(s), ch, rep)

RECURSIVE LStrip(_)
LStrip(s) == IF s # <<>> /\ Head(s) = " " THEN LStrip(Tail(s)) ELSE s

RECURSIVE RStrip(_)
RStrip(s) == IF s # <<>> /\ s[Len(s)] = " " THEN RStrip(SubSeq(s, 1, Len(s) - 1)) ELSE s

\* str.strip()
Strip(s) == RStrip(LStrip(s))

RECURSIVE Split(_, _)
\* str.split(ch): the list of the pieces between the occurrences of ch
Split(s, ch) ==
    LET i == Find(s, ch)
    IN  IF i < 0 THEN <<s>>
        ELSE <<Slice(s, 0, i)>> \o Split(Slice(s, i + 1, Len(s)), ch)

RECURSIVE Join(_, _)
\* sep.join(parts)
Join(parts, sep) ==
    IF parts = <<>> THEN <<>>
    ELSE IF Len(parts) = 1 THEN parts[1]
    ELSE parts[1] \o sep \o Join(Tail(parts), sep)

Digits == <<"0", "1", "2", "3", "4", "5", "6", "7", "8", "9">>

RECURSIVE IntText(_)
\* str(n) for n >= 0
IntText(n) ==
    IF n < 10 THEN <<Digits[n + 1]>>
    ELSE IntText(n \div 10) \o <<Digits[(n % 10) + 1]>>

IsDigit(c) == \E i \in 1..10 : Digits[i] = c

RECURSIVE TextInt(_)
\* int(s) for a non-empty s of digits
TextInt(s) ==
    IF s = <<>> THEN 0
    ELSE 10 * TextInt(SubSeq(s, 1, Len(s) - 1))
         + ((CHOOSE i \in 1..10 : Digits[i] = s[Len(s)]) - 1)

\* a set of texts as a sequence in some fixed order (dict and set iteration).
\* The order of a dict decides only which exception a loop raises first when
\* two names would each raise one.
RECURSIVE SetToSeq(_)
SetToSeq(S) ==
    IF S = {} THEN <<>>
    ELSE LET x == CHOOSE y \in S : TRUE IN <<x>> \o SetToSeq(S \ {x})

(***************************************************************************)
(* Option values.  A value of model.__options__ or of table_meta.options   *)
(* is a Python int, str or dict; a normalized value (what                  *)
(* _options_map_from_strings returns) is a str or a dict of str.  Every    *)
(* value is one record shape, so that any two can be compared.             *)
(***************************************************************************)
NoMap == [x \in {} |-> <<>>]

PyInt(n) == [kind |-> "int", n |-> n, s |-> <<>>, m |-> NoMap]
PyStr(s) == [kind |-> "str", n |-> 0, s |-> s, m |-> NoMap]
\* a dict whose values are PyInt or PyStr
PyDict(m) == [kind |-> "map", n |-> 0, s |-> <<>>, m |-> m]

\* "%s" % v for an int or a str
PyFormat(v) == IF v.kind = "int" THEN IntText(v.n) ELSE v.s

\* metadata.protect_value: a number bare, a string as a quoted CQL literal
ProtectValue(v) ==
    IF v.kind = "int" THEN IntText(v.n)
    ELSE <<"'">> \o Replace(v.s, "'", <<"'", "'">>) \o <<"'">>

\* the clause of a dict value: name = {'k': 'v', ...}
MapClause(name, m) ==
    LET keys == SetToSeq(DOMAIN m)
        params == [i \in 1..Len(keys) |->
                     <<"'">> \o keys[i] \o <<"'", ":", " ", "'">>
                     \o PyFormat(m[keys[i]]) \o <<"'">>]
    IN  name \o <<" ", "=", " ", "{">> \o Join(params, <<",", " ">>) \o <<"}">>

\* metadata.TableMetadataV3._make_option_strings: the clauses "name = value"
MakeOptionStrings(options) ==
    { IF options[name].kind = "map"
      THEN MapClause(name, options[name].m)
      ELSE name \o <<" ", "=", " ">> \o ProtectValue(options[name])
      : name \in DOMAIN options }

(***************************************************************************)
(* json.loads of an object whose members are strings: the only form        *)
(* MapClause renders.  Any other text is a ValueError (ok = FALSE).        *)
(***************************************************************************)
RECURSIVE SkipWs(_, _)
SkipWs(s, i) == IF i <= Len(s) /\ s[i] = " " THEN SkipWs(s, i + 1) ELSE i

JsonFail == [ok |-> FALSE, val |-> <<>>, next |-> 0]

\* a string literal at position i: its text and the position after it
JsonString(s, i) ==
    IF i > Len(s) \/ s[i] # "\"" THEN JsonFail
    ELSE LET rest == SubSeq(s, i + 1, Len(s))
             j == Find(rest, "\"")
         IN  IF j < 0 THEN JsonFail
             ELSE [ok |-> TRUE, val |-> Slice(rest, 0, j), next |-> i + j + 2]

JsonNone == [ok |-> FALSE, map |-> NoMap]

\* acc with acc[key] = val
Put(acc, key, val) == [x \in DOMAIN acc \cup {key} |-> IF x = key THEN val ELSE acc[x]]

RECURSIVE JsonMembers(_, _, _)

\* after a member: a comma and the next member, or the closing brace
JsonNextMember(s, acc, e) ==
    IF e > Len(s) THEN JsonNone
    ELSE IF s[e] = "," THEN JsonMembers(s, e + 1, acc)
    ELSE IF s[e] = "}" /\ SkipWs(s, e + 1) > Len(s) THEN [ok |-> TRUE, map |-> acc]
    ELSE JsonNone

JsonAfterValue(s, acc, k, v) ==
    IF ~v.ok THEN JsonNone
    ELSE JsonNextMember(s, Put(acc, k.val, v.val), SkipWs(s, v.next))

JsonColon(s, acc, k, c) ==
    IF c > Len(s) \/ s[c] # ":" THEN JsonNone
    ELSE JsonAfterValue(s, acc, k, JsonString(s, SkipWs(s, c + 1)))

JsonAfterKey(s, acc, k) ==
    IF ~k.ok THEN JsonNone
    ELSE JsonColon(s, acc, k, SkipWs(s, k.next))

\* the members "key": "value" from position i on, added to acc
JsonMembers(s, i, acc) == JsonAfterKey(s, acc, JsonString(s, SkipWs(s, i)))

JsonObject(s, b) ==
    IF b > Len(s) \/ s[b] # "{" THEN JsonNone
    ELSE IF SkipWs(s, b + 1) <= Len(s) /\ s[SkipWs(s, b + 1)] = "}"
         THEN (IF SkipWs(s, SkipWs(s, b + 1) + 1) > Len(s)
               THEN [ok |-> TRUE, map |-> NoMap] ELSE JsonNone)
    ELSE JsonMembers(s, b + 1, NoMap)

JsonLoads(s) == JsonObject(s, SkipWs(s, 1))

(***************************************************************************)
(* _options_map_from_strings                                               *)
(***************************************************************************)
NStr(s) == [kind |-> "str", s |-> s, m |-> NoMap]
NMap(m) == [kind |-> "map", s |-> <<>>, m |-> m]

\* lines 338 and 341: the dict of a value that holds a brace
OptionFromJson(name, obj) == [ok |-> obj.ok, name |-> name, value |-> NMap(obj.map)]

\* lines 335-341: the value of a clause, a dict or the stripped text
OptionFromValue(name, value, i) ==
    IF i >= 0
    THEN OptionFromJson(name,
            JsonLoads(Replace(Slice(value, i, RFind(value, "}") + 1), "'", <<"\"">>)))
    ELSE [ok |-> TRUE, name |-> name, value |-> NStr(Strip(value))]

\* line 334: name, value = option.split('=')
OptionFromParts(parts) ==
    IF Len(parts) # 2 THEN [ok |-> FALSE, name |-> <<>>, value |-> NStr(<<>>)]
    ELSE OptionFromValue(Strip(parts[1]), parts[2], Find(parts[2], "{"))

\* one clause: [ok, name, value]; ok = FALSE is the ValueError of the tuple
\* unpacking or of json.loads
OptionFromString(option) == OptionFromParts(Split(option, "="))

\* the dict of the parsed clauses
OptionsMapOf(parsed) ==
    [ok  |-> \A p \in parsed : p.ok,
     map |-> [nm \in {p.name : p \in parsed} |-> (CHOOSE p \in parsed : p.name = nm).value]]

OptionsMapFromStrings(option_strings) ==
    OptionsMapOf({OptionFromString(o) : o \in option_strings})

(***************************************************************************)
(* The option diff of _update_options                                      *)
(***************************************************************************)
\* the loop over value.items() against a dict existing_value
NestedDiffers(value, existing_value) ==
    \E k \in DOMAIN value.m :
        k \notin DOMAIN existing_value.m \/ existing_value.m[k] # value.m[k]

\* a variant of OptionDiffers that compares a dict as a whole
OptionDiffersWhole(value, existing_value) == value # existing_value

\* whether the loop body puts name into update_options
OptionDiffers(value, existing_value) ==
    IF existing_value.kind = "str" THEN value # existing_value
    ELSE NestedDiffers(value, existing_value)

RECURSIVE DiffLoop(_, _, _, _)
\* the for loop over model_options.items(), names in iteration order
DiffLoop(names, model_options, existing_options, update_options) ==
    IF names = <<>> THEN [status |-> "ok", name |-> <<>>, update |-> update_options]
    ELSE LET name == Head(names)
             value == model_options[name]
         IN  IF name \notin DOMAIN existing_options
             THEN [status |-> "KeyError", name |-> name, update |-> update_options]
             ELSE IF existing_options[name].kind = "map" /\ value.kind = "str"
             THEN [status |-> "AttributeError", name |-> name, update |-> update_options]
             ELSE DiffLoop(Tail(names), model_options, existing_options,
                           IF OptionDiffers(value, existing_options[name])
                           THEN [x \in DOMAIN update_options \cup {name} |->
                                   IF x = name THEN value ELSE update_options[x]]
                           ELSE update_options)

OptionDiff(model_options, existing_options) ==
    DiffLoop(SetToSeq(DOMAIN model_options), model_options, existing_options, NoMap)

(***************************************************************************)
(* The declaration, the cluster and the metadata cache                     *)
(***************************************************************************)
VARIABLES
    decl,        \* the declared model: its columns, user types and __options__
    live,        \* the schema of the cluster
    meta,        \* cluster.metadata: the client-side cache of the schema
    registered,  \* the user types registered for the keyspace
    call         \* the last call of a management function and what it did

vars == <<decl, live, meta, registered, call>>

TypeNames == {"A", "B", "C"}

\* the name of the index of a column: 'index_{0}_{1}'.format(raw_cf_name, db_field_name)
IndexName(column) == <<"index", "t", column>>

\* option names, as text
GC == <<"g", "c">>
CM == <<"c", "m">>
CP == <<"c", "p">>
ZZ == <<"z", "z">>

\* the options the cluster knows, each with the type of its value
OptionType == (GC :> "int") @@ (CM :> "str") @@ (CP :> "map")

\* the options of a table created with no WITH clause
DefaultOptions ==
    (GC :> PyInt(1)) @@ (CM :> PyStr(<<>>)) @@ (CP :> PyDict((<<"k">> :> PyStr(<<"x">>))))

NoType  == [exists |-> FALSE, fields |-> {}]
NoTable == [exists |-> FALSE, columns |-> {}, pk |-> {}, indexes |-> {}, options |-> NoMap]

\* the names of keyspaces; the model and its user types are of keyspace "ks"
KeyspaceNames == {"ks", "KS"}

\* metadata.KeyspaceMetadata(name, durable_writes, strategy_class, strategy_options),
\* but for the name
KeyspaceMetadata(durable_writes, strategy_class, strategy_options) ==
    [durable_writes |-> durable_writes, strategy_class |-> strategy_class,
     strategy_options |-> strategy_options]

NoKeyspace == KeyspaceMetadata(TRUE, "", NoMap)

\* the keyspaces of a cluster that has the keyspace of the model only
ModelKeyspace == ("ks" :> KeyspaceMetadata(TRUE, "SimpleStrategy", ("replication_factor" :> 1)))

(***************************************************************************)
(* Statements: the CQL text execute() is given, by its parts               *)
(***************************************************************************)
Stmt(op) ==
    [op |-> op, target |-> "", item |-> "", names |-> {}, keys |-> {},
     refs |-> {}, clauses |-> {}, index |-> <<>>, keyspace |-> NoKeyspace]

\* columns.resolve_udts(col, out): the user types of a column, the types of
\* the fields of a type before the type itself
RECURSIVE ResolveUdts(_)
RECURSIVE ResolveFields(_)
ResolveFields(fields) ==
    IF fields = <<>> THEN <<>>
    ELSE ResolveUdts(Head(fields).udt) \o ResolveFields(Tail(fields))

ResolveUdts(udt) ==
    IF udt = "" THEN <<>>
    ELSE ResolveFields(decl.types[udt]) \o <<udt>>

FieldNamesOf(type_model) == {decl.types[type_model][i].name : i \in 1..Len(decl.types[type_model])}
FieldRefsOf(type_model) ==
    {decl.types[type_model][i].udt : i \in 1..Len(decl.types[type_model])} \ {""}

\* get_create_type: CREATE TYPE with every declared field
GetCreateType(type_model) ==
    [Stmt("CREATE TYPE") EXCEPT !.target = type_model,
                                !.names = FieldNamesOf(type_model),
                                !.refs = FieldRefsOf(type_model)]

AlterTypeAdd(type_model, field) ==
    [Stmt("ALTER TYPE ADD") EXCEPT !.target = type_model, !.item = field.name,
                                   !.refs = {field.udt} \ {""}]

\* _get_create_table: every column, the primary key, the options of the model
GetCreateTable ==
    LET cols == decl.columns
    IN  [Stmt("CREATE TABLE") EXCEPT
            !.target = "t",
            !.names = {cols[i].name : i \in 1..Len(cols)},
            !.keys = {cols[i].name : i \in {j \in 1..Len(cols) : cols[j].primary_key}},
            !.refs = {cols[i].udt : i \in 1..Len(cols)} \ {""},
            !.clauses = MakeOptionStrings(decl.options)]

AlterTableAdd(col) ==
    [Stmt("ALTER TABLE ADD") EXCEPT !.target = "t", !.item = col.name,
                                    !.refs = {col.udt} \ {""}]

AlterTableWith(clauses) ==
    [Stmt("ALTER TABLE WITH") EXCEPT !.target = "t", !.clauses = clauses]

CreateIndex(column) ==
    [Stmt("CREATE INDEX") EXCEPT !.target = "t", !.item = column.name,
                                 !.index = IndexName(column.name)]

\* ks_meta.as_cql_query(): CREATE KEYSPACE with the replication and
\* durable_writes of ks_meta
CreateKeyspaceQuery(name, ks_meta) ==
    [Stmt("CREATE KEYSPACE") EXCEPT !.target = name, !.keyspace = ks_meta]

\* "DROP KEYSPACE {0}".format(metadata.protect_name(name))
DropKeyspaceQuery(name) == [Stmt("DROP KEYSPACE") EXCEPT !.target = name]

\* 'DROP TABLE {0};'.format(model.column_family_name())
DropTableQuery == [Stmt("DROP TABLE") EXCEPT !.target = "t"]

(***************************************************************************)
(* The cluster: what execute() does with a statement                       *)
(***************************************************************************)
IsQuoted(t) == Len(t) >= 2 /\ t[1] = "'" /\ t[Len(t)] = "'"

RECURSIVE Unquote(_)
\* the value of a CQL string literal's inside: '' is one quote
Unquote(s) ==
    IF s = <<>> THEN <<>>
    ELSE IF Len(s) >= 2 /\ s[1] = "'" /\ s[2] = "'"
         THEN <<"'">> \o Unquote(SubSeq(s, 3, Len(s)))
    ELSE <<Head(s)>> \o Unquote(Tail(s))

\* the text a CQL literal stands for
CqlText(t) == IF IsQuoted(t) THEN Unquote(SubSeq(t, 2, Len(t) - 1)) ELSE t

IsIntText(t) == t # <<>> /\ \A i \in 1..Len(t) : IsDigit(t[i])

\* the option of a parsed clause and the value the cluster stores for it
ServerOptionOf(p) ==
    IF ~(p.ok /\ p.name \in DOMAIN OptionType)
    THEN [ok |-> FALSE, name |-> p.name, value |-> PyInt(0)]
    ELSE IF OptionType[p.name] = "map"
         THEN [ok |-> p.value.kind = "map", name |-> p.name,
               value |-> PyDict([k \in DOMAIN p.value.m |-> PyStr(p.value.m[k])])]
    ELSE IF OptionType[p.name] = "int"
         THEN [ok |-> p.value.kind = "str" /\ IsIntText(CqlText(p.value.s)),
               name |-> p.name,
               value |-> IF IsIntText(CqlText(p.value.s))
                         THEN PyInt(TextInt(CqlText(p.value.s))) ELSE PyInt(0)]
    ELSE [ok |-> p.value.kind = "str" /\ IsQuoted(p.value.s),
          name |-> p.name, value |-> PyStr(CqlText(p.value.s))]

\* one clause of a WITH
ServerOption(clause) == ServerOptionOf(OptionFromString(clause))

ClausesValid(clauses) == \A c \in clauses : ServerOption(c).ok

\* the options with those of `set` replaced
WithOptionSet(options, set) ==
    [nm \in DOMAIN options |->
       IF \E o \in set : o.name = nm
       THEN (CHOOSE o \in set : o.name = nm).value
       ELSE options[nm]]

\* the options of a table after WITH clauses
WithOptions(options, clauses) == WithOptionSet(options, {ServerOption(c) : c \in clauses})

TypesExist(l, refs) == \A r \in refs : l.types[r].exists

\* "ok", or the message of the failure
ServerCheck(l, stmt) ==
    IF stmt.op = "CREATE KEYSPACE"
    THEN (IF stmt.target \notin DOMAIN l.keyspaces THEN "ok" ELSE "invalid")
    ELSE IF stmt.op = "DROP KEYSPACE"
    THEN (IF stmt.target \in DOMAIN l.keyspaces THEN "ok" ELSE "invalid")
    ELSE IF "ks" \notin DOMAIN l.keyspaces THEN "invalid"
    ELSE IF stmt.op = "DROP TABLE"
    THEN (IF l.table.exists THEN "ok" ELSE "invalid")
    ELSE IF stmt.op = "CREATE TYPE"
    THEN (IF ~l.types[stmt.target].exists /\ TypesExist(l, stmt.refs) THEN "ok" ELSE "invalid")
    ELSE IF stmt.op = "ALTER TYPE ADD"
    THEN (IF /\ l.types[stmt.target].exists
             /\ stmt.item \notin l.types[stmt.target].fields
             /\ TypesExist(l, stmt.refs) THEN "ok" ELSE "invalid")
    ELSE IF stmt.op = "CREATE TABLE"
    THEN (IF l.table.exists THEN "Cannot add already existing column family"
          ELSE IF TypesExist(l, stmt.refs) /\ ClausesValid(stmt.clauses) THEN "ok"
          ELSE "invalid")
    ELSE IF stmt.op = "ALTER TABLE ADD"
    THEN (IF /\ l.table.exists
             /\ stmt.item \notin l.table.columns
             /\ TypesExist(l, stmt.refs) THEN "ok" ELSE "invalid")
    ELSE IF stmt.op = "ALTER TABLE DROP"
    THEN (IF /\ l.table.exists
             /\ stmt.item \in l.table.columns \ l.table.pk THEN "ok" ELSE "invalid")
    ELSE IF stmt.op = "ALTER TABLE WITH"
    THEN (IF l.table.exists /\ ClausesValid(stmt.clauses) THEN "ok" ELSE "invalid")
    ELSE IF stmt.op = "CREATE INDEX"
    THEN (IF /\ l.table.exists
             /\ stmt.item \in l.table.columns
             /\ \A ix \in l.table.indexes : ix.name # stmt.index /\ ix.column # stmt.item
          THEN "ok" ELSE "invalid")
    ELSE "invalid"

\* the schema after an accepted statement
ServerApply(l, stmt) ==
    IF stmt.op = "CREATE KEYSPACE"
    THEN [l EXCEPT !.keyspaces = (stmt.target :> stmt.keyspace) @@ @]
    ELSE IF stmt.op = "DROP KEYSPACE"
    THEN [keyspaces |-> [k \in DOMAIN l.keyspaces \ {stmt.target} |-> l.keyspaces[k]],
          types |-> IF stmt.target = "ks" THEN [t \in TypeNames |-> NoType] ELSE l.types,
          table |-> IF stmt.target = "ks" THEN NoTable ELSE l.table]
    ELSE IF stmt.op = "DROP TABLE"
    THEN [l EXCEPT !.table = NoTable]
    ELSE IF stmt.op = "CREATE TYPE"
    THEN [l EXCEPT !.types[stmt.target] = [exists |-> TRUE, fields |-> stmt.names]]
    ELSE IF stmt.op = "ALTER TYPE ADD"
    THEN [l EXCEPT !.types[stmt.target].fields = @ \cup {stmt.item}]
    ELSE IF stmt.op = "CREATE TABLE"
    THEN [l EXCEPT !.table = [exists |-> TRUE, columns |-> stmt.names, pk |-> stmt.keys,
                               indexes |-> {},
                               options |-> WithOptions(DefaultOptions, stmt.clauses)]]
    ELSE IF stmt.op = "ALTER TABLE ADD"
    THEN [l EXCEPT !.table.columns = @ \cup {stmt.item}]
    ELSE IF stmt.op = "ALTER TABLE DROP"
    THEN [l EXCEPT !.table.columns = @ \ {stmt.item},
                   !.table.indexes = {ix \in @ : ix.column # stmt.item}]
    ELSE IF stmt.op = "ALTER TABLE WITH"
    THEN [l EXCEPT !.table.options = WithOptions(@, stmt.clauses)]
    ELSE IF stmt.op = "CREATE INDEX"
    THEN [l EXCEPT !.table.indexes = @ \cup {[name |-> stmt.index, column |-> stmt.item]}]
    ELSE l

(***************************************************************************)
(* The run of one call.  A run is a record r:                              *)
(*   live, meta, registered   the state the call reads and changes         *)
(*   issued    the statements given to execute(), in order                 *)
(*   status    "ok" while running, "raised" once an exception propagates   *)
(*   error     the exception                                               *)
(*   sets      the set objects the call has made (syncd_types and          *)
(*             syncd_sub_types name them by index: they may be one object) *)
(*   bodies    the types whose _sync_type body ran (line 235), in order    *)
(*   applied   the statements the cluster applied                            *)
(*   diff      how the loop of _update_options ended ("none": it did not   *)
(*             run), and update, its update_options when it ended "ok"     *)
(*   failAt    the statement of this call that fails in transit (0: none)  *)
(*   failures  the statements that failed: their place in issued, the      *)
(*             message                                                     *)
(*   gate      how many statements were issued when                        *)
(*             _allow_schema_modification was called (-1: it was not)      *)
(*   unicode   the interpreter has the builtin `unicode` (Python 2)        *)
(*   lag       the cache does not observe the statements of the call       *)
(*             before the call ends                                        *)
(***************************************************************************)
NoError == [kind |-> "", msg |-> "", name |-> <<>>]

Raise(r, kind, msg, name) ==
    [r EXCEPT !.status = "raised", !.error = [kind |-> kind, msg |-> msg, name |-> name]]

\* the cache m once it has observed what the statement changed in the
\* schema l: a keyspace, a user type or the table
Refreshed(m, l, stmt) ==
    IF stmt.op = "DROP KEYSPACE" /\ stmt.target = "ks" THEN l
    ELSE IF stmt.op \in {"CREATE KEYSPACE", "DROP KEYSPACE"}
         THEN [m EXCEPT !.keyspaces = l.keyspaces]
    ELSE IF stmt.op \in {"CREATE TYPE", "ALTER TYPE ADD"}
         THEN [m EXCEPT !.types[stmt.target] = l.types[stmt.target]]
    ELSE [m EXCEPT !.table = l.table]

\* the cluster after a statement and the cache, which the driver refreshes
\* with the response unless it lags
Applied(r, stmt, schema) ==
    [r EXCEPT !.live = schema,
              !.meta = IF r.lag THEN @ ELSE Refreshed(@, schema, stmt)]

\* execute() fails with a StatementError that carries the message
Fail(r, msg) ==
    Raise([r EXCEPT !.failures = Append(@, [at |-> Len(r.issued), msg |-> msg])],
          "StatementError", msg, <<>>)

\* the statement is in r.issued: it fails in transit, the cluster refuses
\* it, or it is applied
ExecuteIssued(r, stmt, verdict) ==
    IF Len(r.issued) = r.failAt THEN Fail(r, "failed")
    ELSE IF verdict # "ok" THEN Fail(r, verdict)
    ELSE Applied([r EXCEPT !.applied = @ \cup {stmt}], stmt, ServerApply(r.live, stmt))

\* connection.execute(query)
Execute(r, stmt) ==
    IF r.status # "ok" THEN r
    ELSE ExecuteIssued([r EXCEPT !.issued = Append(@, stmt)], stmt,
                       ServerCheck(r.live, stmt))

\* cluster.refresh_user_type_metadata(ks_name, type_name)
RefreshUserTypeMetadata(r, type_name) ==
    IF r.status # "ok" THEN r
    ELSE [r EXCEPT !.meta.types[type_name] = r.live.types[type_name]]

\* type_model.register_for_keyspace(ks_name)
RegisterForKeyspace(r, type_model) ==
    IF r.status # "ok" THEN r
    ELSE [r EXCEPT !.registered = @ \cup {type_model}]

(***************************************************************************)
(* _sync_type                                                              *)
(***************************************************************************)
\* [u for u in udts if u not in the set]
NotIn(udts, set) == SelectSeq(udts, LAMBDA u : u \notin set)

\* a variant of AddMissingFields that adds every declared field
RECURSIVE AddEveryField(_, _, _, _)
AddEveryField(r, type_model, fields, defined_fields) ==
    IF fields = <<>> \/ r.status # "ok" THEN r
    ELSE AddEveryField(Execute(r, AlterTypeAdd(type_model, Head(fields))),
                       type_model, Tail(fields), defined_fields)

\* lines 250-255: ALTER TYPE ... ADD for each declared field that the cached
\* type does not have
RECURSIVE AddMissingFields(_, _, _, _)
AddMissingFields(r, type_model, fields, defined_fields) ==
    IF fields = <<>> \/ r.status # "ok" THEN r
    ELSE AddMissingFields(
            IF Head(fields).name \notin defined_fields
            THEN Execute(r, AlterTypeAdd(type_model, Head(fields)))
            ELSE r,
            type_model, Tail(fields), defined_fields)

\* a variant of SyncTypeBody that creates the type whether or not the cache
\* has it
SyncTypeBodyCreating(r0, type_model) ==
    IF r0.status # "ok" THEN r0
    ELSE RegisterForKeyspace(
            RefreshUserTypeMetadata(
                Execute([r0 EXCEPT !.bodies = Append(@, type_model)],
                        GetCreateType(type_model)),
                type_model),
            type_model)

\* a variant of SyncTypeBody that reads the user types as the cache had them
\* when the call began
SyncTypeBodyStale(r0, type_model) ==
    LET r == [r0 EXCEPT !.bodies = Append(@, type_model)]
        defined_types == meta.types
    IN  IF r0.status # "ok" THEN r0
        ELSE IF ~defined_types[type_model].exists
        THEN RegisterForKeyspace(
                RefreshUserTypeMetadata(Execute(r, GetCreateType(type_model)), type_model),
                type_model)
        ELSE RegisterForKeyspace(
                AddMissingFields(r, type_model, decl.types[type_model],
                                 defined_types[type_model].fields),
                type_model)

\* lines 235-265: create the type, or add its missing fields; register it
SyncTypeBody(r0, type_model) ==
    LET r == [r0 EXCEPT !.bodies = Append(@, type_model)]
        defined_types == r.meta.types
    IN  IF r0.status # "ok" THEN r0
        ELSE IF "ks" \notin DOMAIN r0.meta.keyspaces
        THEN Raise(r0, "KeyError", "keyspace", <<>>)
        ELSE IF ~defined_types[type_model].exists
        THEN RegisterForKeyspace(
                RefreshUserTypeMetadata(Execute(r, GetCreateType(type_model)), type_model),
                type_model)
        ELSE RegisterForKeyspace(
                AddMissingFields(r, type_model, decl.types[type_model],
                                 defined_types[type_model].fields),
                type_model)

RECURSIVE SyncType(_, _, _)
RECURSIVE SyncSubTypes(_, _, _)
RECURSIVE SyncFields(_, _, _)

\* line 233: syncd_sub_types.add(udt), once _sync_type has returned
AddSynced(r, id, udt) ==
    IF r.status = "ok" THEN [r EXCEPT !.sets[id] = @ \cup {udt}] ELSE r

\* lines 231-233: _sync_type for each type of the list, which is then added
\* to syncd_sub_types (the set object `id`)
SyncSubTypes(r, udts, id) ==
    IF udts = <<>> \/ r.status # "ok" THEN r
    ELSE SyncSubTypes(AddSynced(SyncType(r, Head(udts), id), id, Head(udts)),
                      Tail(udts), id)

\* lines 228-233: the loop over the fields of the type
SyncFields(r, fields, id) ==
    IF fields = <<>> \/ r.status # "ok" THEN r
    ELSE SyncFields(
            SyncSubTypes(r, NotIn(ResolveUdts(Head(fields).udt), r.sets[id]), id),
            Tail(fields), id)

\* a variant of SyncType that runs the body for the type before the loop over
\* its fields
SyncTypeBodyFirst(r, type_model, omit_subtypes) ==
    IF r.status # "ok" THEN r
    ELSE SyncFields([SyncTypeBody(r, type_model) EXCEPT !.sets = Append(@, {})],
                    decl.types[type_model], Len(r.sets) + 1)

\* _sync_type(ks_name, type_model, omit_subtypes): omit_subtypes is a set
\* object (its index in r.sets) or None (0).  `omit_subtypes or set()` is
\* the caller's object only when it is not empty.
SyncType(r, type_model, omit_subtypes) ==
    LET shared == omit_subtypes # 0 /\ r.sets[omit_subtypes] # {}
        r1 == IF shared THEN r ELSE [r EXCEPT !.sets = Append(@, {})]
        syncd_sub_types == IF shared THEN omit_subtypes ELSE Len(r1.sets)
    IN  IF r.status # "ok" THEN r
        ELSE SyncTypeBody(SyncFields(r1, decl.types[type_model], syncd_sub_types),
                          type_model)

(***************************************************************************)
(* _update_options                                                         *)
(***************************************************************************)
\* a normalized value as the Python value it is: a str, or a dict of str
AsPy(value) ==
    IF value.kind = "str" THEN PyStr(value.s)
    ELSE PyDict([k \in DOMAIN value.m |-> PyStr(value.m[k])])

\* lines 355-362: both option maps by way of their CQL clauses
ExistingOptions(r) == OptionsMapFromStrings(MakeOptionStrings(r.meta.table.options))
ModelOptions == OptionsMapFromStrings(MakeOptionStrings(decl.options))

\* a variant of UpdateWith that passes over an option the table does not have
UpdateWithKnown(r, diff) ==
    IF DOMAIN diff.update # {}
    THEN Execute(r, AlterTableWith(MakeOptionStrings(
            [nm \in DOMAIN diff.update |-> AsPy(diff.update[nm])])))
    ELSE r

\* a variant of UpdateWith whose statement carries every option of the model
UpdateWithAll(r, diff) ==
    IF diff.status = "KeyError"
    THEN Raise(r, "KeyError", "Invalid table option", diff.name)
    ELSE IF diff.status = "AttributeError"
         THEN Raise(r, "AttributeError", "items", diff.name)
    ELSE IF DOMAIN diff.update # {}
         THEN Execute(r, AlterTableWith(MakeOptionStrings(decl.options)))
    ELSE r

\* lines 382-388: ALTER TABLE ... WITH the options of the diff
UpdateWith(r, diff) ==
    IF diff.status = "KeyError"
    THEN Raise(r, "KeyError", "Invalid table option", diff.name)
    ELSE IF diff.status = "AttributeError"
         THEN Raise(r, "AttributeError", "items", diff.name)
    ELSE IF DOMAIN diff.update # {}
         THEN Execute(r, AlterTableWith(MakeOptionStrings(
                 [nm \in DOMAIN diff.update |-> AsPy(diff.update[nm])])))
    ELSE r

\* lines 363-388: the loop, then the statement
UpdateDiff(r, diff) ==
    UpdateWith([r EXCEPT !.diff = diff.status,
                         !.update = IF diff.status = "ok" THEN diff.update ELSE NoMap],
               diff)

\* lines 360-388
UpdateFrom(r, existing_options, model_options) ==
    IF ~existing_options.ok \/ ~model_options.ok
    THEN Raise(r, "ValueError", "option string", <<>>)
    ELSE UpdateDiff(r, OptionDiff(model_options.map, existing_options.map))

UpdateOptions(r) ==
    IF r.status # "ok" THEN r
    ELSE IF ~r.meta.table.exists THEN Raise(r, "KeyError", "table", <<>>)
    ELSE UpdateFrom(r, ExistingOptions(r), ModelOptions)

(***************************************************************************)
(* sync_table                                                              *)
(***************************************************************************)
\* lines 146-150: _sync_type for the user types of each column that are not
\* in syncd_types (the set object `id`, to which nothing is added here)
RECURSIVE SyncColumnTypes(_, _, _)
RECURSIVE SyncTypesOf(_, _, _)
SyncTypesOf(r, udts, id) ==
    IF udts = <<>> \/ r.status # "ok" THEN r
    ELSE SyncTypesOf(SyncType(r, Head(udts), id), Tail(udts), id)

SyncColumnTypes(r, cols, id) ==
    IF cols = <<>> \/ r.status # "ok" THEN r
    ELSE SyncColumnTypes(
            SyncTypesOf(r, NotIn(ResolveUdts(Head(cols).udt), r.sets[id]), id),
            Tail(cols), id)

\* lines 159-163: the failure of execute() is caught and unicode(ex) looked
\* at, which is a NameError where there is no `unicode`; the failure that
\* says the table exists is swallowed, another one is raised again
SwallowExists(r) ==
    IF ~(r.status = "raised" /\ r.error.kind = "StatementError") THEN r
    ELSE IF ~r.unicode THEN Raise(r, "NameError", "unicode", <<>>)
    ELSE IF r.error.msg = "Cannot add already existing column family"
         THEN [r EXCEPT !.status = "ok", !.error = NoError]
    ELSE r

\* lines 155-163: CREATE TABLE
CreateTable(r) ==
    IF r.status # "ok" THEN r ELSE SwallowExists(Execute(r, GetCreateTable))

\* _get_non_pk_field_names
GetNonPkFieldNames(table_meta) == table_meta.columns \ table_meta.pk

\* a variant of AddMissingColumns that drops a column of the table the model
\* does not declare
DropUndeclaredColumn(r, cols, field_names) ==
    IF r.status # "ok" \/ field_names \ {cols[i].name : i \in 1..Len(cols)} = {} THEN r
    ELSE Execute(r, [Stmt("ALTER TABLE DROP") EXCEPT
                        !.target = "t",
                        !.item = CHOOSE c \in field_names :
                                    c \notin {cols[i].name : i \in 1..Len(cols)}])

\* a variant of AddMissingColumns that adds the columns of the primary key too
RECURSIVE AddMissingWithKeys(_, _, _)
AddMissingWithKeys(r, cols, field_names) ==
    IF cols = <<>> \/ r.status # "ok" THEN r
    ELSE AddMissingWithKeys(
            IF Head(cols).name \in field_names \/ Head(cols).partition_key THEN r
            ELSE Execute(r, AlterTableAdd(Head(cols))),
            Tail(cols), field_names)

\* lines 170-179: ALTER TABLE ... add for each declared column that is not
\* of the primary key and not among field_names
RECURSIVE AddMissingColumns(_, _, _)
AddMissingColumns(r, cols, field_names) ==
    IF cols = <<>> \/ r.status # "ok" THEN r
    ELSE AddMissingColumns(
            IF Head(cols).primary_key \/ Head(cols).partition_key THEN r
            ELSE IF Head(cols).name \in field_names THEN r
            ELSE Execute(r, AlterTableAdd(Head(cols))),
            Tail(cols), field_names)

\* lines 192-201: CREATE INDEX for each indexed column whose index the table
\* (as read at line 187) does not have
RECURSIVE CreateIndexes(_, _, _)
CreateIndexes(r, cols, table) ==
    IF cols = <<>> \/ r.status # "ok" THEN r
    ELSE CreateIndexes(
            IF ~Head(cols).index THEN r
            ELSE IF \E ix \in table.indexes : ix.name = IndexName(Head(cols).name) THEN r
            ELSE Execute(r, CreateIndex(Head(cols))),
            Tail(cols), table)

\* lines 187-201: the table of the cache, and its indexes
SyncIndexes(r) ==
    IF r.status # "ok" THEN r
    ELSE IF ~r.meta.table.exists THEN Raise(r, "KeyError", "table", <<>>)
    ELSE CreateIndexes(r, decl.columns, r.meta.table)

\* a variant of SyncTableBody that creates the indexes of a live table
\* before it updates the options
SyncTableIndexesFirst(r) ==
    IF r.status # "ok" THEN r
    ELSE IF ~r.meta.table.exists THEN SyncIndexes(CreateTable(r))
    ELSE UpdateOptions(
            SyncIndexes(
                AddMissingColumns(r, decl.columns, GetNonPkFieldNames(r.meta.table))))

\* lines 153-201
SyncTableBody(r) ==
    IF r.status # "ok" THEN r
    ELSE SyncIndexes(
            IF ~r.meta.table.exists THEN CreateTable(r)
            ELSE UpdateOptions(
                    AddMissingColumns(r, decl.columns, GetNonPkFieldNames(r.meta.table))))

\* the run of a call from the state of the cluster and the cache
NewRun(failAt) ==
    [live |-> live, meta |-> meta, registered |-> registered, issued |-> <<>>,
     status |-> "ok", error |-> NoError, sets |-> <<>>, bodies |-> <<>>,
     applied |-> {}, diff |-> "none", update |-> NoMap, failAt |-> failAt,
     failures |-> <<>>, gate |-> -1, unicode |-> TRUE, lag |-> FALSE]

\* the run under an interpreter with or without `unicode`, and a cache that
\* lags or not
Under(r, unicode, lag) == [r EXCEPT !.unicode = unicode, !.lag = lag]

\* _allow_schema_modification: it warns when the environment variable is not
\* set, and allows the modification either way
AllowSchemaModification == TRUE

\* the call of _allow_schema_modification() that opens a function
Authorize(r) == [r EXCEPT !.gate = Len(r.issued)]

\* cluster.metadata.keyspaces[ks_name]
KeyspaceOf(r) ==
    IF r.status = "ok" /\ "ks" \notin DOMAIN r.meta.keyspaces
    THEN Raise(r, "KeyError", "keyspace", <<>>)
    ELSE r

\* a variant of RunSyncTable that synchronizes the user types of the columns
\* before it looks at the model
SyncTableTypesFirst(r0) ==
    LET r == SyncColumnTypes(KeyspaceOf([Authorize(r0) EXCEPT !.sets = <<{}>>]),
                             decl.columns, 1)
    IN  IF r.status # "ok" THEN r
        ELSE IF ~decl.is_model
             THEN Raise(r, "CQLEngineException",
                        "Models must be derived from base Model.", <<>>)
        ELSE IF decl.abstract
             THEN Raise(r, "CQLEngineException",
                        "cannot create table from abstract model", <<>>)
        ELSE SyncTableBody(r)

\* sync_table(model) from the run r0; syncd_types is the set object 1
RunSyncTable(r0) ==
    IF ~AllowSchemaModification THEN Authorize(r0)
    ELSE IF ~decl.is_model
         THEN Raise(Authorize(r0), "CQLEngineException",
                    "Models must be derived from base Model.", <<>>)
    ELSE IF decl.abstract
         THEN Raise(Authorize(r0), "CQLEngineException",
                    "cannot create table from abstract model", <<>>)
    ELSE SyncTableBody(
            SyncColumnTypes(KeyspaceOf([Authorize(r0) EXCEPT !.sets = <<{}>>]),
                            decl.columns, 1))

\* sync_type(ks_name, type_model) from the run r0, type_model a subclass of
\* UserType
RunSyncType(r0, type_model) ==
    IF ~AllowSchemaModification THEN Authorize(r0)
    ELSE SyncType(Authorize(r0), type_model, 0)

\* _create_keyspace(name, durable_writes, strategy_class, strategy_options)
CreateKeyspace(r0, name, durable_writes, strategy_class, strategy_options) ==
    IF ~AllowSchemaModification THEN Authorize(r0)
    ELSE IF name \notin DOMAIN r0.meta.keyspaces
         THEN Execute(Authorize(r0),
                      CreateKeyspaceQuery(name, KeyspaceMetadata(durable_writes, strategy_class,
                                                                 strategy_options)))
    ELSE Authorize(r0)

\* create_keyspace_simple(name, replication_factor, durable_writes)
RunCreateKeyspaceSimple(r0, name, replication_factor, durable_writes) ==
    CreateKeyspace(r0, name, durable_writes, "SimpleStrategy",
                   ("replication_factor" :> replication_factor))

\* create_keyspace_network_topology(name, dc_replication_map, durable_writes)
RunCreateKeyspaceNetworkTopology(r0, name, dc_replication_map, durable_writes) ==
    CreateKeyspace(r0, name, durable_writes, "NetworkTopologyStrategy", dc_replication_map)

\* a variant of RunDropKeyspace that drops the keyspace whether or not the
\* cache has it
DropKeyspaceUnchecked(r0, name) ==
    IF ~AllowSchemaModification THEN Authorize(r0)
    ELSE Execute(Authorize(r0), DropKeyspaceQuery(name))

\* drop_keyspace(name)
RunDropKeyspace(r0, name) ==
    IF ~AllowSchemaModification THEN Authorize(r0)
    ELSE IF name \in DOMAIN r0.meta.keyspaces
         THEN Execute(Authorize(r0), DropKeyspaceQuery(name))
    ELSE Authorize(r0)

\* a variant of RunDropTable that does not call _allow_schema_modification
DropTableUngated(r0) ==
    IF "ks" \notin DOMAIN r0.meta.keyspaces \/ ~r0.meta.table.exists THEN r0
    ELSE Execute(r0, DropTableQuery)

\* drop_table(model): a KeyError of the look-up in the cache is passed over
RunDropTable(r0) ==
    IF ~AllowSchemaModification THEN Authorize(r0)
    ELSE IF "ks" \notin DOMAIN r0.meta.keyspaces \/ ~r0.meta.table.exists THEN Authorize(r0)
    ELSE Execute(Authorize(r0), DropTableQuery)

(***************************************************************************)
(* The declarations and the schemas a run starts from                      *)
(***************************************************************************)
\* the position of the latest statement that may fail in transit
MaxFail == 3

Field(name, udt) == [name |-> name, udt |-> udt]

Column(name, key, index, udt) ==
    [name |-> name, primary_key |-> key, partition_key |-> name = "id",
     index |-> index, udt |-> udt]

\* a declaration with no user types
NoTypes == [t \in {} |-> <<>>]

\* user types with A holding B
NestedTypes ==
    [A |-> <<Field("a1", ""), Field("ab", "B")>>,
     B |-> <<Field("b1", ""), Field("b2", "")>>,
     C |-> <<Field("c1", "")>>]

\* the declared user types: flat; A holding B; A holding B and C, B holding C;
\* A holding B twice
TypeDecls ==
    { [A |-> <<Field("a1", "")>>, B |-> <<Field("b1", "")>>, C |-> <<Field("c1", "")>>],
      NestedTypes,
      [A |-> <<Field("ab", "B"), Field("ac", "C"), Field("a1", "")>>,
       B |-> <<Field("bc", "C"), Field("b1", "")>>,
       C |-> <<Field("c1", ""), Field("c2", "")>>],
      [A |-> <<Field("ab", "B"), Field("a2", "B")>>,
       B |-> <<Field("b1", "")>>,
       C |-> <<Field("c1", "")>>] }

\* the declared columns of a table of plain columns
PlainColumns ==
    { <<Column("id", TRUE, FALSE, ""), Column("v1", FALSE, TRUE, "")>>,
      <<Column("id", TRUE, FALSE, ""), Column("ck", TRUE, TRUE, ""),
        Column("v1", FALSE, FALSE, ""), Column("v2", FALSE, TRUE, "")>> }

\* the declared columns of a table with columns of user types
TypedColumns ==
    { <<Column("id", TRUE, FALSE, ""), Column("ck", TRUE, TRUE, ""),
        Column("v1", FALSE, FALSE, "A")>>,
      <<Column("id", TRUE, FALSE, ""), Column("v1", FALSE, FALSE, "A"),
        Column("v2", FALSE, FALSE, "A")>>,
      <<Column("id", TRUE, FALSE, ""), Column("v1", FALSE, FALSE, "A"),
        Column("v2", FALSE, TRUE, "B")>> }

\* the declared __options__
OptionDecls ==
    { NoMap,
      (GC :> PyInt(2)),
      (CM :> PyStr(<<"b">>)),
      (CP :> PyDict((<<"k">> :> PyStr(<<"y">>)))),
      (ZZ :> PyInt(1)),
      (GC :> PyInt(2)) @@ (ZZ :> PyInt(1)),
      (GC :> PyInt(1)) @@ (CP :> PyDict((<<"k">> :> PyStr(<<"x">>)) @@ (<<"j">> :> PyInt(3)))) }

\* the declarations: the options vary on the tables of plain columns, the
\* user types on the others; one model has user types and an option; one
\* model is abstract and one input is not a model
Decls ==
    [columns : PlainColumns, types : {NoTypes}, options : OptionDecls, abstract : {FALSE},
     is_model : {TRUE}]
    \cup [columns : TypedColumns, types : TypeDecls, options : {NoMap}, abstract : {FALSE},
          is_model : {TRUE}]
    \cup [columns : {<<Column("id", TRUE, FALSE, ""), Column("v1", FALSE, FALSE, "A"),
                       Column("v2", FALSE, TRUE, "B")>>},
          types : {NestedTypes}, options : {(GC :> PyInt(2))}, abstract : {FALSE},
          is_model : {TRUE}]
    \cup [columns : {<<Column("id", TRUE, FALSE, ""), Column("v1", FALSE, TRUE, "B")>>},
          types : {NestedTypes}, options : {NoMap}, abstract : {TRUE}, is_model : {TRUE}]
    \cup [columns : {<<Column("id", TRUE, FALSE, ""), Column("v1", FALSE, TRUE, "B")>>},
          types : {NestedTypes}, options : {NoMap}, abstract : {FALSE}, is_model : {FALSE}]

ColumnNames(d) == {d.columns[i].name : i \in 1..Len(d.columns)}
KeyNames(d) == {d.columns[i].name : i \in {j \in 1..Len(d.columns) : d.columns[j].primary_key}}
ColumnOf(d, name) == d.columns[CHOOSE i \in 1..Len(d.columns) : d.columns[i].name = name]
TypeFieldNames(d, t) == {d.types[t][i].name : i \in 1..Len(d.types[t])}
TypeFieldOf(d, t, name) == d.types[t][CHOOSE i \in 1..Len(d.types[t]) : d.types[t][i].name = name]

NoTypesLive == [t \in TypeNames |-> NoType]
FirstField(d, t) == [exists |-> TRUE, fields |-> {d.types[t][1].name}]
EveryField(d, t) == [exists |-> TRUE, fields |-> TypeFieldNames(d, t) \cup {"zz"}]

\* the user types of the cluster: none; each with its first declared field
\* only; each with every declared field and one the declaration does not
\* have; B and C with their first declared field, and no A
LiveTypes(d) ==
    IF DOMAIN d.types = {} THEN {NoTypesLive}
    ELSE { NoTypesLive,
           [t \in TypeNames |-> FirstField(d, t)],
           [t \in TypeNames |-> EveryField(d, t)],
           [t \in TypeNames |-> IF t = "A" THEN NoType ELSE FirstField(d, t)] }

KeyOnlyTable ==
    [exists |-> TRUE, columns |-> {"id"}, pk |-> {"id"}, indexes |-> {},
     options |-> DefaultOptions]

\* every declared column, one more, and an index the declaration does not have
WiderTable(d) ==
    [exists |-> TRUE, columns |-> ColumnNames(d) \cup {"lx"}, pk |-> KeyNames(d),
     indexes |-> {[name |-> <<"other", "t", "lx">>, column |-> "lx"]},
     options |-> (GC :> PyInt(2)) @@ (CM :> PyStr(<<"a">>))
                 @@ (CP :> PyDict((<<"k">> :> PyStr(<<"x">>)) @@ (<<"j">> :> PyStr(<<"3">>))))]

\* every declared column and index
DeclaredTable(d) ==
    [exists |-> TRUE, columns |-> ColumnNames(d), pk |-> KeyNames(d),
     indexes |-> {[name |-> IndexName(c), column |-> c] :
                     c \in {n \in ColumnNames(d) : ColumnOf(d, n).index}},
     options |-> DefaultOptions]

\* the declared non-key column v1 as a column of the primary key
KeyedTable ==
    [exists |-> TRUE, columns |-> {"id", "v1"}, pk |-> {"id", "v1"}, indexes |-> {},
     options |-> DefaultOptions]

\* the table of the cluster
LiveTables(d) ==
    IF DOMAIN d.types = {}
    THEN {NoTable, KeyOnlyTable, WiderTable(d), DeclaredTable(d), KeyedTable}
    ELSE {NoTable, KeyOnlyTable, WiderTable(d)}

\* a schema the cluster can hold: a field or a column of a user type only
\* with the type
Consistent(d, l) ==
    /\ \A t \in DOMAIN d.types : \A f \in l.types[t].fields \cap TypeFieldNames(d, t) :
          TypeFieldOf(d, t, f).udt # "" => l.types[TypeFieldOf(d, t, f).udt].exists
    /\ \A c \in l.table.columns \cap ColumnNames(d) :
          ColumnOf(d, c).udt # "" => l.types[ColumnOf(d, c).udt].exists

NoCall ==
    [op |-> "none", arg |-> "", issued |-> <<>>, outcome |-> "none", error |-> NoError,
     bodies |-> <<>>, applied |-> {}, diff |-> "none", update |-> NoMap,
     failures |-> <<>>, gate |-> -1,
     cache |-> [keyspaces |-> ModelKeyspace, types |-> NoTypesLive, table |-> NoTable],
     pre |-> [keyspaces |-> ModelKeyspace, types |-> NoTypesLive, table |-> NoTable],
     after |-> "none", before |-> {}]

Init ==
    /\ decl \in Decls
    /\ live \in [keyspaces : {ModelKeyspace}, types : LiveTypes(decl),
                 table : LiveTables(decl)]
    /\ Consistent(decl, live)
    /\ meta = live
    /\ registered = {}
    /\ call = NoCall

(***************************************************************************)
(* The calls                                                               *)
(***************************************************************************)
\* how a call of `op` with `arg` follows the call before it: "none", no call
\* before it; "other", another call; "aborted", the same call, which a
\* statement failure ended; "raised", the same call, which another error
\* ended; "retried", the same call, completed, itself after "aborted";
\* "completed", the same call, completed
After(op, arg) ==
    IF call.op = "none" THEN "none"
    ELSE IF call.op # op \/ call.arg # arg THEN "other"
    ELSE IF call.outcome = "raised"
         THEN (IF call.error.kind = "StatementError" THEN "aborted" ELSE "raised")
    ELSE IF call.after = "aborted" THEN "retried"
    ELSE "completed"

\* the statements the call before had applied, when it was the same call
Before(op, arg) == IF call.op # op \/ call.arg # arg THEN {} ELSE call.applied

\* what is kept of a call of `op` that ran as r
CallOf(op, arg, r) ==
    [op |-> op, arg |-> arg, issued |-> r.issued,
     outcome |-> IF r.status = "ok" THEN "completed" ELSE "raised",
     error |-> r.error, bodies |-> r.bodies, applied |-> r.applied,
     diff |-> r.diff, update |-> r.update, failures |-> r.failures, gate |-> r.gate,
     cache |-> meta, pre |-> live, after |-> After(op, arg), before |-> Before(op, arg)]

\* sync_table(model), a statement of which may fail
SyncTable ==
    \E failAt \in 0..MaxFail : \E unicode \in BOOLEAN :
    \E r \in {RunSyncTable(Under(NewRun(failAt), unicode, FALSE))} :
        /\ live' = r.live
        /\ meta' = r.meta
        /\ registered' = r.registered
        /\ call' = CallOf("sync_table", "", r)
        /\ UNCHANGED decl

\* sync_type(ks_name, type_model), a statement of which may fail
SyncTypeCall ==
    \E type_model \in DOMAIN decl.types : \E failAt \in 0..MaxFail :
        \E r \in {RunSyncType(NewRun(failAt), type_model)} :
            /\ live' = r.live
            /\ meta' = r.meta
            /\ registered' = r.registered
            /\ call' = CallOf("sync_type", type_model, r)
            /\ UNCHANGED decl

Next == SyncTable \/ SyncTypeCall

Spec == Init /\ [][Next]_vars

(***************************************************************************)
(* _update_options alone, on many pairs of declared and live options       *)
(***************************************************************************)
Maps(names, values) == UNION {[dom -> values] : dom \in SUBSET names}

\* the declared values of the options, each also of another kind than the
\* cluster's
DesiredOptions ==
    { a @@ b @@ c :
        a \in Maps({GC}, {PyInt(1), PyInt(2), PyStr(<<"1">>)}),
        b \in Maps({CM}, {PyStr(<<>>), PyStr(<<"a">>), PyStr(<<"h", "'">>),
                          PyDict((<<"k">> :> PyStr(<<"x">>)))}),
        c \in Maps({CP}, {PyDict((<<"k">> :> PyStr(<<"x">>))),
                          PyDict((<<"k">> :> PyStr(<<"y">>))),
                          PyDict((<<"j">> :> PyInt(3))),
                          PyDict((<<"k">> :> PyStr(<<"x">>)) @@ (<<"j">> :> PyStr(<<"3">>))),
                          PyDict(NoMap),
                          PyStr(<<"x">>)}) }

\* the options of the live table
LiveOptions ==
    { (GC :> a) @@ (CM :> b) @@ (CP :> c) :
        a \in {PyInt(1), PyInt(2)},
        b \in {PyStr(<<>>), PyStr(<<"a">>), PyStr(<<"h", "'">>)},
        c \in {PyDict((<<"k">> :> PyStr(<<"x">>))),
               PyDict((<<"k">> :> PyStr(<<"x">>)) @@ (<<"j">> :> PyStr(<<"3">>))),
               PyDict(NoMap)} }

InitOptions ==
    /\ decl \in [columns : {<<Column("id", TRUE, FALSE, "")>>}, types : {NoTypes},
                 options : DesiredOptions, abstract : {FALSE}, is_model : {TRUE}]
    /\ live \in [keyspaces : {ModelKeyspace}, types : {NoTypesLive},
                 table : {[KeyOnlyTable EXCEPT !.options = o] : o \in LiveOptions}]
    /\ meta = live
    /\ registered = {}
    /\ call = NoCall

\* _update_options(model), the statement of which may fail
UpdateOptionsCall ==
    \E failAt \in 0..MaxFail : \E r \in {UpdateOptions(NewRun(failAt))} :
        /\ live' = r.live
        /\ meta' = r.meta
        /\ registered' = r.registered
        /\ call' = CallOf("_update_options", "", r)
        /\ UNCHANGED decl

NextOptions == UpdateOptionsCall

SpecOptions == InitOptions /\ [][NextOptions]_vars

(***************************************************************************)
(* Every management function, on a cluster whose keyspaces come and go     *)
(***************************************************************************)
\* the latest statement of a keyspace function that may fail in transit
MaxFailKeyspace == 1

ReplicationFactors == {3}

ReplicationMaps == {("dc1" :> 3) @@ ("dc2" :> 2)}

\* the keyspaces of the cluster: none, that of the model, and one more
LiveKeyspaces ==
    { [k \in {} |-> NoKeyspace],
      ModelKeyspace,
      ("KS" :> KeyspaceMetadata(FALSE, "NetworkTopologyStrategy", ("dc1" :> 1)))
          @@ ModelKeyspace }

\* a model with a column of a user type
SchemaDecls ==
    [columns : {<<Column("id", TRUE, FALSE, ""), Column("v1", FALSE, TRUE, "B")>>},
     types : {NestedTypes}, options : {NoMap},
     abstract : {FALSE}, is_model : {TRUE}]

InitSchema ==
    /\ decl \in SchemaDecls
    /\ live \in [keyspaces : LiveKeyspaces,
                 types : {NoTypesLive}, table : {NoTable, KeyOnlyTable}]
    /\ "ks" \notin DOMAIN live.keyspaces => live.table = NoTable
    /\ meta = live
    /\ registered = {}
    /\ call = NoCall

\* create_keyspace_simple(name, replication_factor, durable_writes)
CreateKeyspaceSimple ==
    \E name \in KeyspaceNames : \E replication_factor \in ReplicationFactors :
    \E durable_writes \in BOOLEAN : \E failAt \in 0..MaxFailKeyspace :
    \E r \in {RunCreateKeyspaceSimple(NewRun(failAt), name, replication_factor,
                                      durable_writes)} :
        /\ live' = r.live
        /\ meta' = r.meta
        /\ registered' = r.registered
        /\ call' = CallOf("create_keyspace_simple", name, r)
        /\ UNCHANGED decl

\* create_keyspace_network_topology(name, dc_replication_map, durable_writes)
CreateKeyspaceNetworkTopology ==
    \E name \in KeyspaceNames : \E dc_replication_map \in ReplicationMaps :
    \E durable_writes \in {TRUE} : \E failAt \in 0..MaxFailKeyspace :
    \E r \in {RunCreateKeyspaceNetworkTopology(NewRun(failAt), name, dc_replication_map,
                                               durable_writes)} :
        /\ live' = r.live
        /\ meta' = r.meta
        /\ registered' = r.registered
        /\ call' = CallOf("create_keyspace_network_topology", name, r)
        /\ UNCHANGED decl

\* drop_keyspace(name)
DropKeyspace ==
    \E name \in KeyspaceNames : \E failAt \in 0..MaxFailKeyspace :
    \E r \in {RunDropKeyspace(NewRun(failAt), name)} :
        /\ live' = r.live
        /\ meta' = r.meta
        /\ registered' = r.registered
        /\ call' = CallOf("drop_keyspace", name, r)
        /\ UNCHANGED decl

\* drop_table(model)
DropTable ==
    \E failAt \in 0..MaxFailKeyspace : \E r \in {RunDropTable(NewRun(failAt))} :
        /\ live' = r.live
        /\ meta' = r.meta
        /\ registered' = r.registered
        /\ call' = CallOf("drop_table", "", r)
        /\ UNCHANGED decl

NextSchema ==
    \/ CreateKeyspaceSimple
    \/ CreateKeyspaceNetworkTopology
    \/ DropKeyspace
    \/ DropTable
    \/ SyncTable
    \/ SyncTypeCall

SpecSchema == InitSchema /\ [][NextSchema]_vars

(***************************************************************************)
(* sync_table and sync_type with a metadata cache that may lag the         *)
(* statements of a call until the driver next refreshes it                 *)
(***************************************************************************)
\* the models with no __options__, of two columns or with A holding B
LagDecls ==
    {d \in Decls : /\ d.options = NoMap /\ d.is_model /\ ~d.abstract
                   /\ IF d.types = NoTypes THEN Len(d.columns) = 2
                      ELSE d.types = NestedTypes /\ d.columns[2].name = "v1"}

InitLag ==
    /\ decl \in LagDecls
    /\ live \in [keyspaces : {ModelKeyspace}, types : LiveTypes(decl),
                 table : LiveTables(decl)]
    /\ Consistent(decl, live)
    /\ meta = live
    /\ registered = {}
    /\ call = NoCall

\* sync_table(model), a statement of which may fail, the cache lagging or not
SyncTableLagging ==
    \E failAt \in 0..MaxFail : \E unicode \in BOOLEAN : \E lag \in BOOLEAN :
    \E r \in {RunSyncTable(Under(NewRun(failAt), unicode, lag))} :
        /\ live' = r.live
        /\ meta' = r.meta
        /\ registered' = r.registered
        /\ call' = CallOf("sync_table", "", r)
        /\ UNCHANGED decl

\* sync_type(ks_name, type_model), a statement of which may fail, the cache
\* lagging or not
SyncTypeLagging ==
    \E type_model \in DOMAIN decl.types : \E failAt \in 0..MaxFail : \E lag \in BOOLEAN :
    \E r \in {RunSyncType(Under(NewRun(failAt), TRUE, lag), type_model)} :
        /\ live' = r.live
        /\ meta' = r.meta
        /\ registered' = r.registered
        /\ call' = CallOf("sync_type", type_model, r)
        /\ UNCHANGED decl

\* the driver brings the cache up to the schema of the cluster
RefreshSchema ==
    /\ meta # live
    /\ meta' = live
    /\ UNCHANGED <<decl, live, registered, call>>

NextLag == SyncTableLagging \/ SyncTypeLagging \/ RefreshSchema

SpecLag == InitLag /\ [][NextLag]_vars

(***************************************************************************)
(* Properties of the calls                                                 *)
(***************************************************************************)
IssuedAt == 1..Len(call.issued)

TypeOps == {"CREATE TYPE", "ALTER TYPE ADD"}

\* the statement creates or adds what the schema l already has
Recreates(stmt, l) ==
    \/ stmt.op = "CREATE TYPE" /\ l.types[stmt.target].exists
    \/ stmt.op = "ALTER TYPE ADD" /\ stmt.item \in l.types[stmt.target].fields
    \/ stmt.op = "CREATE TABLE" /\ l.table.exists
    \/ stmt.op = "ALTER TABLE ADD" /\ stmt.item \in l.table.columns
    \/ stmt.op = "CREATE INDEX" /\ \E ix \in l.table.indexes : ix.name = stmt.index

\* the value of the cluster is the declared one; of a map, on the declared keys
Agrees(desired, value) ==
    IF desired.kind = "map"
    THEN /\ value.kind = "map"
         /\ \A k \in DOMAIN desired.m :
               k \in DOMAIN value.m /\ PyFormat(value.m[k]) = PyFormat(desired.m[k])
    ELSE value.kind # "map" /\ PyFormat(value) = PyFormat(desired)

\* type a has a field of type b, or a field of a type that has one
Holds(a, b) == \E i \in 1..Len(decl.types[a]) : decl.types[a][i].udt = b
Contains(a, b) == Holds(a, b) \/ \E c \in DOMAIN decl.types : Holds(a, c) /\ Holds(c, b)

\* the user types of the declared columns and the types they contain
ReachableTypes ==
    {t \in DOMAIN decl.types :
        \E i \in 1..Len(decl.columns) :
            decl.columns[i].udt = t \/ (decl.columns[i].udt # "" /\ Contains(decl.columns[i].udt, t))}

\* C1: a sync_table that follows a completed sync_table of the same
\* declaration issues no statement.
C1_SecondRunIssuesNothing ==
    (call.op = "sync_table" /\ call.after \in {"completed", "retried"})
        => call.issued = <<>>

\* C2: on a live table sync_table keeps every column and every index of the
\* table, and issues only statements that create or add.
C2_Additive ==
    (call.op = "sync_table" /\ call.pre.table.exists)
        => /\ live.table.exists
           /\ call.pre.table.columns \subseteq live.table.columns
           /\ call.pre.table.indexes \subseteq live.table.indexes
           /\ call.pre.table.pk = live.table.pk
           /\ \A i \in IssuedAt :
                 call.issued[i].op \in {"CREATE TYPE", "ALTER TYPE ADD", "ALTER TABLE ADD",
                                        "ALTER TABLE WITH", "CREATE INDEX"}

\* a sync_table that issued statements on a table with a column and an index
\* the declaration does not have
C2_Witness ==
    /\ call.op = "sync_table"
    /\ call.outcome = "completed"
    /\ "lx" \in call.pre.table.columns
    /\ \E ix \in call.pre.table.indexes : ix.column = "lx"
    /\ \E i \in IssuedAt : call.issued[i].op = "CREATE INDEX"

\* C3: a sync_table that follows one a statement failure ended creates or
\* adds nothing the earlier call had applied, and ends, when no statement
\* of it fails, completed (or with the error of an option the table does not
\* have); the call after it issues no statement.
C3_RetrySafe ==
    call.op = "sync_table"
        => /\ call.after = "aborted"
                => /\ \A i \in IssuedAt : \A done \in call.before :
                         ~(/\ call.issued[i].op = done.op
                           /\ call.issued[i].target = done.target
                           /\ call.issued[i].item = done.item
                           /\ call.issued[i].op # "ALTER TABLE WITH")
                   /\ call.outcome = "raised"
                         => \/ call.error.kind = "StatementError"
                            \/ call.error.msg = "Invalid table option"
           /\ call.after = "retried" => call.issued = <<>>

\* C4: after a completed sync_table the cluster has the table, the declared
\* columns that are not of the key, the fields of the user types of its
\* columns, the index of each indexed column, and the declared value of each
\* declared option; and the call issued nothing for what was there already.
C4_Converged ==
    (call.op = "sync_table" /\ call.outcome = "completed")
        => /\ live.table.exists
           /\ \A i \in 1..Len(decl.columns) :
                 decl.columns[i].primary_key \/ decl.columns[i].name \in live.table.columns
           /\ \A t \in ReachableTypes :
                 /\ live.types[t].exists
                 /\ \A i \in 1..Len(decl.types[t]) :
                       decl.types[t][i].name \in live.types[t].fields
           /\ \A i \in 1..Len(decl.columns) :
                 decl.columns[i].index
                    => \E ix \in live.table.indexes :
                          ix.name = IndexName(decl.columns[i].name)
           /\ \A name \in DOMAIN decl.options :
                 /\ name \in DOMAIN live.table.options
                 /\ Agrees(decl.options[name], live.table.options[name])
           /\ \A i \in IssuedAt :
                 /\ ~Recreates(call.issued[i], call.pre)
                 /\ call.issued[i].op = "ALTER TABLE WITH"
                       => \E name \in DOMAIN call.update :
                             ~Agrees(decl.options[name], call.pre.table.options[name])

\* C5: of the statements of one sync_table or sync_type, none for a user type
\* comes before one for a type it contains.
C5_ChildrenFirst ==
    call.op \in {"sync_table", "sync_type"}
        => \A i \in IssuedAt : \A j \in IssuedAt :
              (/\ i < j
               /\ call.issued[i].op \in TypeOps
               /\ call.issued[j].op \in TypeOps)
                 => ~Contains(call.issued[i].target, call.issued[j].target)

\* a sync_table that issued statements for a type and for a type in it
C5_Witness ==
    /\ call.op = "sync_table"
    /\ \E i \in IssuedAt : \E j \in IssuedAt :
          /\ i < j
          /\ call.issued[i].op \in TypeOps
          /\ call.issued[j].op = "CREATE TYPE"
          /\ Contains(call.issued[j].target, call.issued[i].target)
    /\ \E i \in IssuedAt : call.issued[i].op = "ALTER TYPE ADD"

\* C6: in one sync_table the body of _sync_type runs once at most for a user
\* type, and once for each type of the columns when the call completes.
C6_BodyOnce ==
    call.op = "sync_table"
        => \A t \in DOMAIN decl.types :
              /\ Cardinality({i \in 1..Len(call.bodies) : call.bodies[i] = t}) <= 1
              /\ (call.outcome = "completed" /\ t \in ReachableTypes)
                    => \E i \in 1..Len(call.bodies) : call.bodies[i] = t

\* C7 (as the specification states it): on a live table sync_table issues no
\* statement for a declared column of the primary key.
C7_NoStatementForKey ==
    (call.op = "sync_table" /\ call.pre.table.exists)
        => \A i \in IssuedAt :
              call.issued[i].op \in {"ALTER TABLE ADD", "CREATE INDEX"}
                 => call.issued[i].item \notin KeyNames(decl)

\* C7 (amended): on a live table sync_table issues no ALTER TABLE ADD for a
\* declared column of the primary key; its only statement for one is the
\* CREATE INDEX of a key column declared indexed.
C7_NoAddForKey ==
    (call.op = "sync_table" /\ call.pre.table.exists)
        => \A i \in IssuedAt :
              (/\ call.issued[i].op \in {"ALTER TABLE ADD", "CREATE INDEX"}
               /\ call.issued[i].item \in KeyNames(decl))
                 => /\ call.issued[i].op = "CREATE INDEX"
                    /\ ColumnOf(decl, call.issued[i].item).index

\* a sync_table that added columns to a live table without a declared column
\* of the primary key
C7_Witness ==
    /\ call.op = "sync_table"
    /\ call.pre.table.exists
    /\ KeyNames(decl) \ call.pre.table.columns # {}
    /\ \E i \in IssuedAt : call.issued[i].op = "ALTER TABLE ADD"
    /\ call.diff = "ok"

\* C8: on a live table without an option the declaration names, sync_table
\* raises, issues no ALTER TABLE WITH and, unless a statement of it failed,
\* raises the error of an invalid option, which names that option.
C8_UnknownOption ==
    (/\ call.op = "sync_table"
     /\ call.pre.table.exists
     /\ DOMAIN decl.options \ DOMAIN call.pre.table.options # {})
        => /\ call.outcome = "raised"
           /\ \A i \in IssuedAt : call.issued[i].op # "ALTER TABLE WITH"
           /\ call.error.kind # "StatementError"
                 => /\ call.error.kind = "KeyError"
                    /\ call.error.msg = "Invalid table option"
                    /\ call.error.name \in DOMAIN decl.options \ DOMAIN call.pre.table.options

\* a sync_table that added a column and then raised the error of an option
\* the table does not have, another declared option differing from the table's
C8_Witness ==
    /\ call.op = "sync_table"
    /\ call.pre.table.exists
    /\ call.error.kind = "KeyError"
    /\ call.error.name = ZZ
    /\ call.diff = "KeyError"
    /\ GC \in DOMAIN decl.options
    /\ ~Agrees(decl.options[GC], call.pre.table.options[GC])
    /\ \E i \in IssuedAt : call.issued[i].op = "ALTER TABLE ADD"

\* C9: when the loop of _update_options ends, update_options has a declared
\* name exactly when the normalized value of the table is a string other
\* than the normalized declared value, or is a dict that lacks a key of the
\* declared dict or has another value for it; a declared integer whose text
\* is the normalized value of the table is not in update_options.
C9_DiffSemantics ==
    (call.op = "_update_options" /\ call.diff = "ok")
        => \A desired \in {OptionsMapFromStrings(MakeOptionStrings(decl.options)).map} :
           \A existing \in {OptionsMapFromStrings(
                               MakeOptionStrings(call.pre.table.options)).map} :
              \A name \in DOMAIN desired :
                 /\ name \in DOMAIN call.update
                       <=> IF existing[name].kind = "str"
                           THEN desired[name] # existing[name]
                           ELSE \E k \in DOMAIN desired[name].m :
                                   \/ k \notin DOMAIN existing[name].m
                                   \/ existing[name].m[k] # desired[name].m[k]
                 /\ name \in DOMAIN call.update => call.update[name] = desired[name]
                 /\ (/\ decl.options[name].kind = "int"
                     /\ existing[name] = NStr(IntText(decl.options[name].n)))
                       => name \notin DOMAIN call.update

\* an _update_options with a declared dict that agrees with the table's, which
\* has one more key, a declared integer equal to the table's, and a declared
\* string other than the table's
C9_Witness ==
    /\ call.op = "_update_options"
    /\ call.diff = "ok"
    /\ DOMAIN decl.options = {GC, CM, CP}
    /\ DOMAIN call.update = {CM}
    /\ decl.options[GC].kind = "int"
    /\ DOMAIN decl.options[CP].m # {}
    /\ DOMAIN call.pre.table.options[CP].m \ DOMAIN decl.options[CP].m # {}

\* C10: a sync_type that follows a completed sync_type of the same type
\* issues no statement.
C10_SecondSyncTypeIssuesNothing ==
    (call.op = "sync_type" /\ call.after \in {"completed", "retried"})
        => call.issued = <<>>

\* a sync_type after a sync_type of the same type that created a type and
\* added a field to another
C10_Witness ==
    /\ call.op = "sync_type"
    /\ call.after = "completed"
    /\ \E done \in call.before : done.op = "CREATE TYPE"
    /\ \E done \in call.before : done.op = "ALTER TYPE ADD"

\* C11: create_keyspace_simple and create_keyspace_network_topology issue
\* exactly one CREATE KEYSPACE, of the name and the strategy of the function,
\* when the name is not a keyspace of the cluster metadata, and no statement
\* when it is; drop_keyspace issues exactly one DROP KEYSPACE of the name
\* when it is a keyspace of the metadata and no statement when it is not.
C11_KeyspaceByExistence ==
    LET known == call.arg \in DOMAIN call.cache.keyspaces
        one(op) == /\ Len(call.issued) = 1
                   /\ call.issued[1].op = op
                   /\ call.issued[1].target = call.arg
    IN  /\ call.op \in {"create_keyspace_simple", "create_keyspace_network_topology"} =>
              IF known THEN call.issued = <<>>
              ELSE /\ one("CREATE KEYSPACE")
                   /\ call.issued[1].keyspace.strategy_class =
                         IF call.op = "create_keyspace_simple" THEN "SimpleStrategy"
                         ELSE "NetworkTopologyStrategy"
        /\ call.op = "drop_keyspace" =>
              IF known THEN one("DROP KEYSPACE") ELSE call.issued = <<>>

\* create_keyspace_simple has created "KS" on a cluster that had "ks"
C11_Witness ==
    /\ call.op = "create_keyspace_simple"
    /\ call.arg = "KS"
    /\ DOMAIN call.cache.keyspaces = {"ks"}
    /\ call.outcome = "completed"
    /\ Len(call.issued) = 1
    /\ DOMAIN live.keyspaces = {"ks", "KS"}
    /\ live.keyspaces["KS"].strategy_class = "SimpleStrategy"

\* C12: in every public function (create_keyspace_simple,
\* create_keyspace_network_topology, drop_keyspace, sync_table, sync_type,
\* drop_table) _allow_schema_modification is called before any statement is
\* executed, and when it denies the modification the function issues no
\* statement, changes nothing and returns without raising.
C12_GateFirst ==
    call.op # "none" =>
        /\ call.gate = 0
        /\ ~AllowSchemaModification =>
              /\ call.issued = <<>>
              /\ call.outcome = "completed"
              /\ live = call.pre
              /\ meta = call.cache

\* drop_table has dropped the table, the gate called before the statement
C12_Witness ==
    /\ call.op = "drop_table"
    /\ call.gate = 0
    /\ call.pre.table.exists
    /\ Len(call.issued) = 1
    /\ call.issued[1].op = "DROP TABLE"
    /\ ~live.table.exists

\* C13: sync_table of an abstract model, or of an input that is not derived
\* from Model, raises a CQLEngineException before any statement is executed,
\* those of the user types of its columns included: no _sync_type body runs,
\* and the cluster and the cache are as before the call.
C13_RejectedBeforeStatements ==
    call.op = "sync_table" /\ (decl.abstract \/ ~decl.is_model) =>
        /\ call.outcome = "raised"
        /\ call.error.kind = "CQLEngineException"
        /\ call.error.msg = IF ~decl.is_model
                            THEN "Models must be derived from base Model."
                            ELSE "cannot create table from abstract model"
        /\ call.issued = <<>>
        /\ call.bodies = <<>>
        /\ live = call.pre
        /\ meta = call.cache

\* sync_table of the abstract model, whose column is of a user type the
\* cluster does not have, has raised
C13_Witness ==
    /\ call.op = "sync_table"
    /\ decl.abstract
    /\ \E i \in 1..Len(decl.columns) :
          decl.columns[i].udt # "" /\ ~live.types[decl.columns[i].udt].exists
    /\ call.outcome = "raised"
    /\ call.error.msg = "cannot create table from abstract model"

\* the failures of CREATE TABLE statements in the call
CreateTableFailures ==
    {i \in 1..Len(call.failures) : call.issued[call.failures[i].at].op = "CREATE TABLE"}

\* C14: when sync_table finds the table absent from the metadata and its
\* CREATE TABLE fails, a failure whose message says that the table already
\* exists is swallowed and not raised; a failure with any other message is
\* raised to the caller, and no statement is issued after it.
C14_SwallowsAlreadyExists ==
    call.op = "sync_table" /\ ~call.cache.table.exists =>
        \A i \in CreateTableFailures :
            IF call.failures[i].msg = "Cannot add already existing column family"
            THEN ~(/\ call.outcome = "raised"
                   /\ call.error.kind \in {"StatementError", "NameError"})
            ELSE /\ call.outcome = "raised"
                 /\ call.error.kind = "StatementError"
                 /\ call.error.msg = call.failures[i].msg
                 /\ call.failures[i].at = Len(call.issued)

\* the place of a statement in the order of sync_table
StatementRank(stmt) ==
    IF stmt.op \in TypeOps THEN 1
    ELSE IF stmt.op \in {"CREATE TABLE", "ALTER TABLE ADD"} THEN 2
    ELSE IF stmt.op = "ALTER TABLE WITH" THEN 3
    ELSE IF stmt.op = "CREATE INDEX" THEN 4
    ELSE 0

\* C15: within one sync_table call every CREATE TYPE and ALTER TYPE ADD is
\* issued before CREATE TABLE and before any ALTER TABLE; every ALTER TABLE
\* ADD is issued before ALTER TABLE WITH, and that before every CREATE
\* INDEX; sync_table issues no other kind of statement.
C15_StatementOrder ==
    call.op = "sync_table" =>
        /\ \A i \in IssuedAt : StatementRank(call.issued[i]) > 0
        /\ \A i, j \in IssuedAt :
              i < j => StatementRank(call.issued[i]) <= StatementRank(call.issued[j])

\* a sync_table call on a live table has issued statements of all four ranks
C15_Witness ==
    /\ call.op = "sync_table"
    /\ call.pre.table.exists
    /\ call.outcome = "completed"
    /\ {StatementRank(call.issued[i]) : i \in IssuedAt} = {1, 2, 3, 4}

\* the ALTER TABLE WITH statements of the call, by their places
WithAt == {i \in IssuedAt : call.issued[i].op = "ALTER TABLE WITH"}

\* the option names of a statement's clauses
ClauseNames(stmt) == {OptionFromString(c).name : c \in stmt.clauses}

\* the declared options whose normalized value differs from that of the table
\* the call found
ChangedOptions(model_options, existing_options) ==
    {nm \in DOMAIN model_options : OptionDiffers(model_options[nm], existing_options[nm])}

\* the statement carries the changed options, given both normalized maps
CarriesChanged(stmt, model_options, existing_options) ==
    /\ model_options.ok /\ existing_options.ok
    /\ DOMAIN model_options.map \subseteq DOMAIN existing_options.map
    /\ ClauseNames(stmt) = ChangedOptions(model_options.map, existing_options.map)
    /\ ClauseNames(stmt) # {}

\* C16: a sync_table call issues at most one ALTER TABLE WITH; on a table
\* the metadata has, it issues one exactly when _update_options found a
\* non-empty diff, and the statement carries exactly the names of the
\* declared options whose normalized value differs from the table's; when
\* the table is absent and CREATE TABLE is issued, the call issues no ALTER
\* TABLE WITH and no ALTER TABLE ADD.
C16_SingleOptionAlteration ==
    call.op = "sync_table" =>
        /\ Cardinality(WithAt) <= 1
        /\ call.cache.table.exists =>
              /\ WithAt # {} <=> call.diff = "ok" /\ DOMAIN call.update # {}
              /\ \A i \in WithAt :
                    /\ ClauseNames(call.issued[i]) = DOMAIN call.update
                    /\ CarriesChanged(call.issued[i], ModelOptions,
                          OptionsMapFromStrings(MakeOptionStrings(call.cache.table.options)))
        /\ ~call.cache.table.exists =>
              \A i \in IssuedAt :
                  call.issued[i].op \notin {"ALTER TABLE WITH", "ALTER TABLE ADD"}

\* a completed sync_table call on a live table has issued one ALTER TABLE
\* WITH that leaves out an unchanged declared option
C16_Witness ==
    /\ call.op = "sync_table"
    /\ call.cache.table.exists
    /\ call.outcome = "completed"
    /\ Cardinality(WithAt) = 1
    /\ \A i \in WithAt :
          /\ ClauseNames(call.issued[i]) # {}
          /\ ClauseNames(call.issued[i]) # DOMAIN decl.options
          /\ ClauseNames(call.issued[i]) \subseteq DOMAIN decl.options

\* the call has gone past the creation of the table: CREATE TABLE was
\* applied, or its failure said that the table exists
PastCreateTable ==
    \/ \E stmt \in call.applied : stmt.op = "CREATE TABLE"
    \/ \E i \in CreateTableFailures :
          call.failures[i].msg = "Cannot add already existing column family"

\* a type that _sync_type created is in the cache when it is registered
TypeRefreshedBeforeRegistered ==
    \A stmt \in call.applied :
        stmt.op = "CREATE TYPE" /\ stmt.target \in registered =>
            meta.types[stmt.target].exists

\* C17: when the metadata cache did not show the table as sync_table began
\* and the call created it, or swallowed the failure that says it exists,
\* the index step of the same call does not fail on the cache not having
\* the table; and a type that _sync_type created is in the cache when it is
\* registered.
C17_LagTolerated ==
    /\ call.op = "sync_table" /\ ~call.cache.table.exists /\ PastCreateTable =>
          ~(call.outcome = "raised" /\ call.error.kind = "KeyError")
    /\ TypeRefreshedBeforeRegistered

\* the ALTER TYPE ADD statements of the call for type t, by their places
AddsAt(t) ==
    {i \in IssuedAt : call.issued[i].op = "ALTER TYPE ADD" /\ call.issued[i].target = t}

\* the declared fields of t that the type did not have before the call
MissingFields(t) == TypeFieldNames(decl, t) \ call.pre.types[t].fields

\* the _sync_type body ran for t
BodyRan(t) == \E i \in 1..Len(call.bodies) : call.bodies[i] = t

\* C18: for a type the metadata has, a call issues ALTER TYPE ADD only for
\* declared fields the type lacks, once each, and no CREATE TYPE; no field of
\* the type is dropped; and when the call completes, every type whose
\* _sync_type body ran has had exactly its missing fields added and is
\* registered, whether it was altered or left as it was.
C18_TypeAdditive ==
    call.op \in {"sync_type", "sync_table"} =>
        \A t \in DOMAIN decl.types :
            call.pre.types[t].exists =>
                /\ \A i \in AddsAt(t) : call.issued[i].item \in MissingFields(t)
                /\ \A i, j \in AddsAt(t) :
                      call.issued[i].item = call.issued[j].item => i = j
                /\ \A i \in IssuedAt :
                      ~(call.issued[i].op = "CREATE TYPE" /\ call.issued[i].target = t)
                /\ call.pre.types[t].fields \subseteq live.types[t].fields
                /\ call.outcome = "completed" /\ BodyRan(t) =>
                      /\ {call.issued[i].item : i \in AddsAt(t)} = MissingFields(t)
                      /\ t \in registered

\* a completed sync_type call has added the missing fields of a live type
\* and registered it
C18_Witness ==
    /\ call.op = "sync_type"
    /\ call.outcome = "completed"
    /\ call.pre.types[call.arg].exists
    /\ MissingFields(call.arg) # {}
    /\ {call.issued[i].item : i \in AddsAt(call.arg)} = MissingFields(call.arg)
    /\ call.arg \in registered

C20_NoAddForLiveColumn ==
    call.op = "sync_table" =>
        \A i \in IssuedAt :
            call.issued[i].op = "ALTER TABLE ADD" =>
                call.issued[i].item \notin call.pre.table.columns


====
